---- MODULE Spec2Model ----
(***************************************************************************)
(* A model of the line editor of src/input.go (package lined, the version  *)
(* with the mutex, lines 358-801): the Reader, readString and History.     *)
(*                                                                         *)
(* Bytes are integers, strings and byte slices are sequences of bytes.     *)
(* Go indexes from 0, TLA+ from 1: r.unread[i] is unread[i+1].  The        *)
(* variables offset, from, newline, pick keep the Go (0-based) values.     *)
(*                                                                         *)
(* A run-time panic is not recovered anywhere in the repository: it ends   *)
(* the process.  The model records it as alive = FALSE, after which no     *)
(* operation runs and the Reader's fields are no longer observable.        *)
(***************************************************************************)
EXTENDS Integers, Sequences, FiniteSets, TLC

\* ------------------------------------------------------------------ bounds
MaxLen == 2      \* longest pending buffer explored
MaxHist == 2     \* most history entries explored
MaxKeys == 1     \* most keystrokes delivered by one read of the explored input
MaxCol == 3      \* widest terminal explored

\* --------------------------------------------------------- program constants
PLen == 20       \* p := make([]byte, 20)
ETX == 3         \* "\003"
LF == 10         \* '\n'
CR == 13         \* "\r"
ESC == 27        \* "\033"

Callers == {"c1", "c2"}
NoOne == "none"

\* ------------------------------------------------------------ byte slices
Take(s, n) == SubSeq(s, 1, n)
Drop(s, n) == SubSeq(s, n + 1, Len(s))

\* bytes.HasPrefix(s, pre)
HasPrefix(s, pre) == Len(pre) <= Len(s) /\ SubSeq(s, 1, Len(pre)) = pre

\* bytes.IndexByte(s, b): the 0-based index of the first b in s, or -1
IndexByte(s, b) ==
    LET at == {i \in 1..Len(s) : s[i] = b}
    IN IF at = {} THEN -1 ELSE (CHOOSE i \in at : \A j \in at : i <= j) - 1

\* append(s[:i], s[i+1:]...), i 0-based
RemoveAt(s, i) == Take(s, i) \o Drop(s, i + 1)

\* copy(p[:], p[c:]): the first len(p)-c bytes are overwritten, the rest stay
ShiftBuf(p, c) == [i \in 1..Len(p) |-> IF i + c <= Len(p) THEN p[i + c] ELSE p[i]]

\* os.Stdin.Read(p[from:]) storing chunk: p[from+n:] keeps its old bytes
ReadInto(p, from, chunk) ==
    [i \in 1..Len(p) |->
        IF i > from /\ i <= from + Len(chunk) THEN chunk[i - from] ELSE p[i]]

\* x % y and x / y of Go: truncated towards zero (y # 0)
Abs(x) == IF x < 0 THEN -x ELSE x
GoRem(x, y) == IF x >= 0 THEN x % Abs(y) ELSE -((-x) % Abs(y))
GoQuo(x, y) ==
    LET q == Abs(x) \div Abs(y)
    IN IF (x < 0) = (y < 0) THEN q ELSE -q

\* ------------------------------------------------------ the specials table
\* specials, in the order of the source; fn names the handler
specials ==
    << [fn |-> "DeleteNext",     codes |-> << <<4>>, <<27, 91, 51, 126>> >>],
       [fn |-> "DeletePrevious", codes |-> << <<127>>, <<8>> >>],
       [fn |-> "StartOfLine",    codes |-> << <<1>>, <<27, 91, 72>> >>],
       [fn |-> "EndOfLine",      codes |-> << <<5>>, <<27, 91, 52, 126>>,
                                              <<27, 91, 70>>, <<27, 36>> >>],
       [fn |-> "Transpose",      codes |-> << <<20>> >>],
       [fn |-> "UpArrow",        codes |-> << <<27, 91, 65>> >>],
       [fn |-> "DownArrow",      codes |-> << <<27, 91, 66>> >>],
       [fn |-> "RightArrow",     codes |-> << <<27, 91, 67>> >>],
       [fn |-> "LeftArrow",      codes |-> << <<27, 91, 68>> >>],
       [fn |-> "CarriageReturn", codes |-> << <<13>>, <<10>> >>] >>

\* the codes in the order the two nested loops of the dispatch visit them
RECURSIVE FlatFrom(_)
FlatFrom(i) ==
    IF i > Len(specials) THEN <<>>
    ELSE [j \in 1..Len(specials[i].codes) |->
            [fn |-> specials[i].fn, code |-> specials[i].codes[j]]]
         \o FlatFrom(i + 1)

FlatCodes == FlatFrom(1)

\* ------------------------------------------------------------ the handlers
\* A handler works on the record s of what the closures of readString
\* capture: unread, offset (fields of r), newline, pick (locals).  It leaves
\* its results in s.x (<<>> for nil) and s.err ("nil" for nil).  hh is r.h.

Panicked(s) == [s EXCEPT !.err = "panic"]

\* variant: delete-forward takes the byte before the cursor
DeleteNextBefore(s, hh, echo) ==
    IF s.offset = Len(s.unread)
    THEN [s EXCEPT !.x = s.unread, !.err = "ErrEOF"]
    ELSE IF s.offset > Len(s.unread) \/ s.offset < 0
    THEN Panicked(s)
    ELSE [s EXCEPT !.unread = RemoveAt(s.unread, IF s.offset > 0 THEN s.offset - 1 ELSE 1)]

DeleteNext(s, hh, echo) ==
    IF s.offset = Len(s.unread)
    THEN [s EXCEPT !.x = s.unread, !.err = "ErrEOF"]
    ELSE IF s.offset > Len(s.unread) \/ s.offset < 0
    THEN Panicked(s)
    ELSE [s EXCEPT !.unread = RemoveAt(s.unread, s.offset)]

DeletePrevious(s, hh, echo) ==
    IF s.offset > 0
    THEN IF s.offset - 1 >= Len(s.unread)
         THEN Panicked(s)
         ELSE [s EXCEPT !.offset = s.offset - 1,
                        !.unread = RemoveAt(s.unread, s.offset - 1)]
    ELSE s

StartOfLine(s, hh, echo) == [s EXCEPT !.offset = 0]

EndOfLine(s, hh, echo) == [s EXCEPT !.offset = Len(s.unread)]

Transpose(s, hh, echo) ==
    LET c == IF s.offset = Len(s.unread) THEN s.offset - 1 ELSE s.offset
        d == c - 1
    IN IF c > 0
       THEN IF c >= Len(s.unread)
            THEN Panicked(s)
            ELSE [s EXCEPT !.unread = [s.unread EXCEPT ![c + 1] = s.unread[d + 1],
                                                       ![d + 1] = s.unread[c + 1]],
                           !.offset = IF c = s.offset THEN s.offset + 1 ELSE s.offset]
       ELSE s

\* variant: recall-older that does not look at echo
UpArrowAnyMode(s, hh, echo) ==
    IF s.pick < Len(hh)
    THEN LET old == hh[Len(hh) - s.pick]
             d == Take(old, Len(old) - 1)
         IN [s EXCEPT !.offset = Len(d), !.unread = d, !.pick = s.pick + 1]
    ELSE s

UpArrow(s, hh, echo) ==
    IF echo /\ s.pick < Len(hh)
    THEN LET old == hh[Len(hh) - s.pick]
         IN IF Len(old) = 0
            THEN Panicked(s)
            ELSE LET d == Take(old, Len(old) - 1)
                 IN [s EXCEPT !.offset = Len(d), !.unread = d, !.pick = s.pick + 1]
    ELSE s

\* variant: recall-newer that leaves the line alone below the newest entry
DownArrowKeep(s, hh, echo) ==
    IF ~echo
    THEN s
    ELSE LET dPick == s.pick - 2
         IN IF dPick >= 0
            THEN LET old == hh[Len(hh) - dPick]
                     d == Take(old, Len(old) - 1)
                 IN [s EXCEPT !.pick = s.pick - 1, !.offset = Len(d), !.unread = d]
            ELSE [s EXCEPT !.pick = 0]

DownArrow(s, hh, echo) ==
    IF ~echo
    THEN s
    ELSE LET dPick == s.pick - 2
         IN IF dPick >= 0
            THEN IF Len(hh) - dPick < 1 \/ Len(hh[Len(hh) - dPick]) = 0
                 THEN Panicked(s)
                 ELSE LET old == hh[Len(hh) - dPick]
                          d == Take(old, Len(old) - 1)
                      IN [s EXCEPT !.pick = s.pick - 1, !.offset = Len(d), !.unread = d]
            ELSE [s EXCEPT !.offset = 0, !.unread = <<>>, !.pick = 0]

\* variant: cursor-right without the clamp at the end of the buffer
RightArrowNoClamp(s, hh, echo) == [s EXCEPT !.offset = s.offset + 1]

RightArrow(s, hh, echo) ==
    [s EXCEPT !.offset = IF s.offset + 1 > Len(s.unread)
                         THEN Len(s.unread) ELSE s.offset + 1]

LeftArrow(s, hh, echo) ==
    [s EXCEPT !.offset = IF s.offset - 1 < 0 THEN 0 ELSE s.offset - 1]

CarriageReturn(s, hh, echo) ==
    [s EXCEPT !.offset = Len(s.unread), !.newline = Len(s.unread), !.x = <<LF>>]

\* sp.fn(m)
Apply(fn, s, hh, echo) ==
    CASE fn = "DeleteNext" -> DeleteNext(s, hh, echo)
      [] fn = "DeletePrevious" -> DeletePrevious(s, hh, echo)
      [] fn = "StartOfLine" -> StartOfLine(s, hh, echo)
      [] fn = "EndOfLine" -> EndOfLine(s, hh, echo)
      [] fn = "Transpose" -> Transpose(s, hh, echo)
      [] fn = "UpArrow" -> UpArrow(s, hh, echo)
      [] fn = "DownArrow" -> DownArrow(s, hh, echo)
      [] fn = "RightArrow" -> RightArrow(s, hh, echo)
      [] fn = "LeftArrow" -> LeftArrow(s, hh, echo)
      [] fn = "CarriageReturn" -> CarriageReturn(s, hh, echo)

\* ------------------------------------------------------------ the dispatch
\* The scan of the specials table for the buffer p holding from bytes: the
\* first code, in table order, with from >= len(code) that p starts with;
\* partial is computed over the codes visited before the scan stops.
Scan(p, from) ==
    LET hits == {k \in 1..Len(FlatCodes) :
                    /\ from >= Len(FlatCodes[k].code)
                    /\ HasPrefix(p, FlatCodes[k].code)}
        found == hits # {}
        k == IF found THEN CHOOSE i \in hits : \A j \in hits : i <= j ELSE 0
        visited == IF found THEN 1..(k - 1) ELSE 1..Len(FlatCodes)
    IN [found |-> found,
        k |-> k,
        partial |-> \E j \in visited :
                        /\ from < Len(FlatCodes[j].code)
                        /\ HasPrefix(FlatCodes[j].code, Take(p, from))]

IsDigit(b) == b >= 48 /\ b <= 57

\* the length of the run of digits of q that starts at (1-based) i
RECURSIVE DigitRun(_, _)
DigitRun(q, i) ==
    IF i <= Len(q) /\ IsDigit(q[i]) THEN 1 + DigitRun(q, i + 1) ELSE 0

\* strconv.Atoi of a string of digits
RECURSIVE Atoi(_)
Atoi(ds) ==
    IF ds = <<>> THEN 0 ELSE 10 * Atoi(Take(ds, Len(ds) - 1)) + (ds[Len(ds)] - 48)

\* cursorAt.FindSubmatch(q) for `^(\d+);(\d+)R`: ok, the length of the match
\* and the two numbers
cursorAt(q) ==
    LET d1 == DigitRun(q, 1)
        d2 == DigitRun(q, d1 + 2)
        ok == /\ d1 >= 1
              /\ d1 + 1 <= Len(q) /\ q[d1 + 1] = 59
              /\ d2 >= 1
              /\ d1 + d2 + 2 <= Len(q) /\ q[d1 + d2 + 2] = 82
    IN IF ok
       THEN [ok |-> TRUE, len |-> d1 + d2 + 2,
             row |-> Atoi(SubSeq(q, 1, d1)),
             col |-> Atoi(SubSeq(q, d1 + 2, d1 + d2 + 1))]
       ELSE [ok |-> FALSE, len |-> 0, row |-> 0, col |-> 0]

\* "Consume exactly one character of input": b is inserted at the offset
InsertByte(s, b) ==
    IF s.offset > Len(s.unread) \/ s.offset < 0
    THEN Panicked(s)
    ELSE [s EXCEPT !.unread = Take(s.unread, s.offset) \o b \o Drop(s.unread, s.offset),
                   !.offset = s.offset + 1,
                   !.p = ShiftBuf(s.p, 1),
                   !.from = s.from - 1]

\* the loop "for from > 0" over the buffered bytes.  s also holds p, from
\* and r.atR, r.atC.  The result has err = "nil" when the loop is left by its
\* condition or by the break on a partial match, and the error (with the
\* returned text in s.text) when readString returns from inside the loop.
RECURSIVE DispatchLoop(_, _, _)

\* after the literal insert of s2: the next iteration
Inserted(s2, hh, echo) ==
    IF s2.err # "nil" THEN s2 ELSE DispatchLoop(s2, hh, echo)

\* no code was applied without a result and none can still match: a cursor
\* position reply is consumed, anything else inserts b (the first byte, or
\* what the handler returned) and drops one byte of p
Unmatched(s1, b, reply, hh, echo) ==
    IF Take(s1.p, 2) = <<ESC, 91>> /\ reply.ok
    THEN DispatchLoop([s1 EXCEPT !.p = ShiftBuf(s1.p, 2 + reply.len),
                                 !.from = s1.from - (2 + reply.len),
                                 !.atR = reply.row,
                                 !.atC = reply.col],
                      hh, echo)
    ELSE Inserted(InsertByte(s1, b), hh, echo)

\* after the table scan sc, s1 being the state the handler found left
AfterScan(s1, sc, hh, echo) ==
    IF s1.err # "nil"
    THEN [s1 EXCEPT !.text = s1.x]
    ELSE IF sc.found /\ s1.x = <<>>
    THEN DispatchLoop([s1 EXCEPT !.p = ShiftBuf(s1.p, Len(FlatCodes[sc.k].code)),
                                 !.from = s1.from - Len(FlatCodes[sc.k].code)],
                      hh, echo)
    ELSE IF sc.partial
    THEN s1
    ELSE Unmatched(s1, IF sc.found THEN s1.x ELSE <<s1.p[1]>>,
                   cursorAt(Drop(s1.p, 2)), hh, echo)

\* the handler of the code the scan sc found, if any, is applied to s0
Scanned(s0, sc, hh, echo) ==
    AfterScan(IF sc.found THEN Apply(FlatCodes[sc.k].fn, s0, hh, echo) ELSE s0,
              sc, hh, echo)

DispatchLoop(s, hh, echo) ==
    IF s.from <= 0
    THEN s
    ELSE IF s.p[1] = ETX
    THEN [s EXCEPT !.err = "ErrTerminated", !.text = <<>>]
    ELSE Scanned([s EXCEPT !.x = <<>>], Scan(s.p, s.from), hh, echo)

\* ---------------------------------------------------------- the completion
\* variant: the completed line is put in front of the history
CompletePrepend(s, hh, echo) ==
    IF s.newline + 1 > Len(s.unread) \/ s.from < 0
    THEN [err |-> "panic", line |-> <<>>, h |-> hh,
          unread |-> s.unread, offset |-> s.offset]
    ELSE LET line == Take(s.unread, s.newline + 1)
         IN [err |-> "nil",
             line |-> line,
             h |-> IF echo THEN <<line>> \o hh ELSE hh,
             unread |-> Drop(s.unread, s.newline + 1) \o Take(s.p, s.from),
             offset |-> 0]

\* variant: the completion leaves the returned line in the pending buffer
CompleteKeepLine(s, hh, echo) ==
    IF s.newline + 1 > Len(s.unread) \/ s.from < 0
    THEN [err |-> "panic", line |-> <<>>, h |-> hh,
          unread |-> s.unread, offset |-> s.offset]
    ELSE LET line == Take(s.unread, s.newline + 1)
         IN [err |-> "nil",
             line |-> line,
             h |-> IF echo THEN Append(hh, line) ELSE hh,
             unread |-> s.unread \o Take(s.p, s.from),
             offset |-> 0]

\* The head of the outer loop when newline # -1: the line up to the newline
\* is recorded (echoed reads) and returned, the rest stays pending together
\* with the undispatched bytes p[:from].  Slicing past the end panics: at
\* r.unread[:newline+1] or, where the capacity of the slice lets that one
\* pass, at r.unread[newline+1:].
Complete(s, hh, echo) ==
    IF s.newline + 1 > Len(s.unread) \/ s.from < 0
    THEN [err |-> "panic", line |-> <<>>, h |-> hh,
          unread |-> s.unread, offset |-> s.offset]
    ELSE LET line == Take(s.unread, s.newline + 1)
         IN [err |-> "nil",
             line |-> line,
             h |-> IF echo THEN Append(hh, line) ELSE hh,
             unread |-> Drop(s.unread, s.newline + 1) \o Take(s.p, s.from),
             offset |-> 0]

\* -------------------------------------------------------------- the redraw
\* What the redraw writes to standard output, as a sequence of tokens:
\* "up", "down", "left", "right" n for ESC [ n A/B/D/C, "break" for the
\* continuation marker with its line break "\\\r\n", "ch" n for the byte n
\* of the line, "eol" for ESC [ 0 K and "line" for ESC [ 2 K.
Tok(t, n) == <<[t |-> t, n |-> n]>>

up(n) == IF n > 0 THEN Tok("up", n) ELSE IF n < 0 THEN Tok("down", -n) ELSE <<>>

down(n) == up(-n)

left(n) == IF n > 0 THEN Tok("left", n) ELSE IF n < 0 THEN Tok("right", -n) ELSE <<>>

clearEOL == Tok("eol", 0)

clearLine == Tok("line", 0)

\* k n times over
RECURSIVE Repeat(_, _)
Repeat(k, n) == IF n = 0 THEN <<>> ELSE k \o Repeat(k, n - 1)

\* "display full line content": the bytes of u from the (0-based) index i
\* on, with a break before each one that (i + cOffset) % w = 0 holds for
RECURSIVE Content(_, _, _, _)
Content(u, i, cOffset, w) ==
    IF i >= Len(u)
    THEN <<>>
    ELSE (IF GoRem(i + cOffset, w) = 0 THEN Tok("break", 0) ELSE <<>>)
         \o Tok("ch", u[i + 1])
         \o Content(u, i + 1, cOffset, w)

\* the number of breaks in the content
Breaks(n, cOffset, w) ==
    Cardinality({i \in 0..(n - 1) : GoRem(i + cOffset, w) = 0})

\* the clearing of the rows the previous redraw used and this one does not
ClearStale(wasLines, lines, cUp) ==
    IF wasLines > lines
    THEN Repeat(down(1) \o clearLine, wasLines - lines) \o up(cUp + wasLines - lines)
    ELSE <<>>

\* The redraw of an echoed read, was and wasLines being what the previous
\* redraw of the read left: what it writes (out) and what it leaves in the
\* locals was and wasLines.  w = r.col - 1 = 0 makes the first remainder
\* panic.
Redraw(s, col, was, wasLines) ==
    IF col - 1 = 0
    THEN [err |-> "panic", was |-> 0, wasLines |-> 0, out |-> <<>>]
    ELSE [err |-> "nil",
          was |-> s.offset,
          wasLines |-> Breaks(Len(s.unread), s.atC - 1, col - 1),
          out |-> up(GoQuo(was - 1 + s.atC - 1, col - 1))
                  \o left(GoRem(was - 1 + s.atC - 1, col - 1) + 1 - (s.atC - 1))
                  \o Content(s.unread, 0, s.atC - 1, col - 1)
                  \o clearEOL
                  \o ClearStale(wasLines, Breaks(Len(s.unread), s.atC - 1, col - 1),
                                GoQuo(Len(s.unread) - 1 + s.atC - 1, col - 1)
                                - GoQuo(s.offset - 1 + s.atC - 1, col - 1))
                  \o up(GoQuo(Len(s.unread) - 1 + s.atC - 1, col - 1)
                        - GoQuo(s.offset - 1 + s.atC - 1, col - 1))
                  \o left(GoRem(Len(s.unread) - 1 + s.atC - 1, col - 1)
                          - GoRem(s.offset - 1 + s.atC - 1, col - 1))]

\* ------------------------------------------------------------ the terminal
\* What a terminal of the given width makes of the output: scr is the cursor
\* (row r, column c, both from 0, row 0 being the row of the prompt), the
\* deferred wrap of a character written to the last column (wrap), and the
\* cells that hold a character (cells, a set of <<row, column, byte>>).  The
\* rows are taken to be as many as the output needs, above and below.  end
\* is the row of the last clear-to-end-of-line: the redraw writes one, right
\* after the content, so it is the row the content last written ends on.
BACKSLASH == 92

NoScreen == [r |-> 0, c |-> 0, wrap |-> FALSE, cells |-> {}, end |-> 0]

\* a printable byte: written at the cursor, after the deferred wrap if any
PutAt(scr, r, c, b, width) ==
    [r |-> r,
     c |-> IF c + 1 < width THEN c + 1 ELSE c,
     wrap |-> ~(c + 1 < width),
     end |-> scr.end,
     cells |-> {x \in scr.cells : ~(x[1] = r /\ x[2] = c)} \cup {<<r, c, b>>}]

Put(scr, b, width) ==
    IF scr.wrap
    THEN PutAt(scr, scr.r + 1, 0, b, width)
    ELSE PutAt(scr, scr.r, scr.c, b, width)

\* "\r\n"
NewLine(scr) == [scr EXCEPT !.r = scr.r + 1, !.c = 0, !.wrap = FALSE]

Max(a, b) == IF a > b THEN a ELSE b

Min(a, b) == IF a < b THEN a ELSE b

\* one token of the output
Show(scr, k, width) ==
    CASE k.t = "ch" -> Put(scr, k.n, width)
      [] k.t = "break" -> NewLine(Put(scr, BACKSLASH, width))
      [] k.t = "up" -> [scr EXCEPT !.r = scr.r - k.n, !.wrap = FALSE]
      [] k.t = "down" -> [scr EXCEPT !.r = scr.r + k.n, !.wrap = FALSE]
      [] k.t = "left" -> [scr EXCEPT !.c = Max(0, scr.c - k.n), !.wrap = FALSE]
      [] k.t = "right" -> [scr EXCEPT !.c = Min(Max(0, width - 1), scr.c + k.n),
                                      !.wrap = FALSE]
      [] k.t = "eol" -> [scr EXCEPT !.cells = {x \in scr.cells :
                                                   ~(x[1] = scr.r /\ x[2] >= scr.c)},
                                    !.end = scr.r]
      [] k.t = "line" -> [scr EXCEPT !.cells = {x \in scr.cells : x[1] # scr.r}]

\* the tokens of out from the i-th on
RECURSIVE ShowFrom(_, _, _, _)
ShowFrom(scr, out, i, width) ==
    IF i > Len(out) THEN scr ELSE ShowFrom(Show(scr, out[i], width), out, i + 1, width)

ShowAll(scr, out, width) == ShowFrom(scr, out, 1, width)

\* variant: a reset that restores nothing
resetNothing(orig, tmode) == tmode

\* reset(orig): term.Restore puts the saved settings back; nil restores nothing
reset(orig, tmode) == IF orig = "nil" THEN tmode ELSE orig

\* History(n) on the history hh: m < n || n < 0 gives ("", m), else hh[m-1-n]
HistoryResult(hh, n) ==
    LET m == Len(hh)
    IN IF m < n \/ n < 0
       THEN [op |-> "History", text |-> <<>>, total |-> m, err |-> "nil"]
       ELSE IF m - 1 - n < 0
       THEN [op |-> "History", text |-> <<>>, total |-> 0, err |-> "panic"]
       ELSE [op |-> "History", text |-> hh[m - n], total |-> m, err |-> "nil"]

\* ---------------------------------------------------------------- the state
VARIABLES
    mu,        \* r.mu: the caller holding the lock, or NoOne
    h,         \* r.h
    unread,    \* r.unread
    offset,    \* r.offset
    col,       \* r.col
    atR, atC,  \* r.atR, r.atC
    tmode,     \* the settings of the terminal: "cooked" or "raw"
    alive,     \* FALSE once a panic has ended the process
    pc,        \* where each caller is
    frame,     \* the arguments and locals of each caller's call
    ret,       \* what each caller's last call returned
    returned,  \* the lines the completed echoed reads returned, in order
    script     \* the input prepared for the scripted specifications

vars == <<mu, h, unread, offset, col, atR, atC, tmode, alive, pc, frame, ret,
          returned, script>>

ZeroBuf == [i \in 1..PLen |-> 0]

\* the locals of readString at its start (and of a caller that made no call)
NoFrame ==
    [echo |-> FALSE, n |-> 0, orig |-> "nil", p |-> ZeroBuf, from |-> 0,
     newline |-> -1, pick |-> 0, was |-> 0, wasLines |-> 0, out |-> <<>>,
     scr |-> NoScreen]

\* the frame of a call that has returned: its locals are gone; the model
\* keeps its argument (echo, n) and whether it had saved terminal settings
Returned(f) == [NoFrame EXCEPT !.echo = f.echo, !.n = f.n, !.orig = f.orig]

NoRet == [op |-> "none", text |-> <<>>, total |-> 0, err |-> "nil"]

ReadRet(text, err) == [op |-> "read", text |-> text, total |-> 0, err |-> err]

\* no prepared input: the explored input is chosen read by read
NoScript ==
    [kind |-> "none", bytes |-> <<>>, pos |-> 0, echo |-> FALSE,
     start |-> <<>>, off0 |-> 0, h0 |-> <<>>,
     calls |-> 0, at |-> 0, pend |-> <<>>, hist |-> <<>>]

\* NewReader() and a terminal in its normal settings
Init ==
    /\ mu = NoOne
    /\ h = <<>>
    /\ unread = <<>>
    /\ offset = 0
    /\ col = 0
    /\ atR = 0
    /\ atC = 0
    /\ tmode = "cooked"
    /\ alive = TRUE
    /\ pc = [c \in Callers |-> "idle"]
    /\ frame = [c \in Callers |-> NoFrame]
    /\ ret = [c \in Callers |-> NoRet]
    /\ returned = <<>>
    /\ script = NoScript

\* ------------------------------------------------------------- environment
\* What sc.Control finds: standard input is no terminal (or the call fails),
\* or it is one of width w and term.MakeRaw succeeds or fails.
TermCols == {0, 1, MaxCol}

TermChoices ==
    {[isTerm |-> FALSE, col |-> 0, rawOk |-> FALSE]}
    \cup {[isTerm |-> TRUE, col |-> w, rawOk |-> b] : w \in TermCols, b \in BOOLEAN}

\* The keystrokes of the explored input: two letters, the control bytes and
\* the arrow keys.
Keys ==
    { <<97>>, <<98>>, <<ETX>>, <<4>>, <<127>>, <<1>>, <<5>>, <<20>>, <<CR>>,
      <<ESC, 91, 65>>, <<ESC, 91, 66>>, <<ESC, 91, 67>>, <<ESC, 91, 68>> }

RECURSIVE Flat(_)
Flat(ks) == IF ks = <<>> THEN <<>> ELSE Head(ks) \o Flat(Tail(ks))

\* The byte streams of at most n keystrokes of K, the last one possibly cut
\* short (one read of standard input may end in the middle of a sequence).
StreamsOf(K, n) ==
    LET whole == UNION {[1..m -> K] : m \in 0..(n - 1)}
        cut == UNION {{Take(k, i) : i \in 1..(Len(k) - 1)} : k \in K}
        last == K \cup cut
    IN {Flat(ks) \o t : ks \in whole, t \in last}

Streams == StreamsOf(Keys, MaxKeys)

\* What one read of standard input may deliver when pend = p[:from] is held
\* back: the rest of a stream that starts with pend.
ChunksAfter(S, pend) ==
    {Drop(st, Len(pend)) : st \in {x \in S : HasPrefix(x, pend) /\ Len(x) > Len(pend)}}

\* ------------------------------------------------------------- readString
\* variant: a lock that is always granted
CanLockAlways == TRUE

\* r.mu.Lock() succeeds when nobody holds the lock
CanLock == mu = NoOne

\* One pass of the outer loop after os.Stdin.Read stored chunk: the dispatch
\* of the buffered bytes, the redraw, and the head of the next pass (the
\* completion).  f is the caller's frame.  kind is "return" (readString
\* returns text, err), "continue" (it blocks in the next Read) or "panic".
Outcome(s1, rd, cp, base) ==
    IF s1.err = "panic" THEN [base EXCEPT !.kind = "panic"]
    ELSE IF s1.err # "nil"
    THEN [base EXCEPT !.kind = "return", !.text = s1.text, !.err = s1.err]
    ELSE IF rd.err = "panic" THEN [base EXCEPT !.kind = "panic"]
    ELSE IF s1.newline = -1 THEN base
    ELSE IF cp.err = "panic" THEN [base EXCEPT !.kind = "panic"]
    ELSE [base EXCEPT !.kind = "return", !.text = cp.line,
                      !.unread = cp.unread, !.offset = cp.offset, !.h = cp.h]

\* s1 is what the dispatch left, rd what the redraw left in was, wasLines.
\* What the pass wrote to standard output is kept (in the frame, as out) for
\* prepared input only, and what the terminal shows (scr) for the input
\* prepared for the renderer only.
AfterRedraw(f, s1, rd) ==
    Outcome(s1, rd, Complete(s1, h, f.echo),
            [kind |-> "continue", text |-> <<>>, err |-> "nil",
             unread |-> s1.unread, offset |-> s1.offset, h |-> h,
             atR |-> s1.atR, atC |-> s1.atC,
             frame |-> [f EXCEPT !.p = s1.p, !.from = s1.from,
                                 !.newline = s1.newline, !.pick = s1.pick,
                                 !.was = rd.was, !.wasLines = rd.wasLines,
                                 !.out = IF script.kind = "none"
                                         THEN <<>> ELSE rd.out,
                                 !.scr = IF script.kind = "draw"
                                         THEN ShowAll(f.scr, rd.out, col)
                                         ELSE f.scr]])

AfterDispatch(f, s1) ==
    AfterRedraw(f, s1,
                IF s1.newline = -1 /\ f.echo
                THEN Redraw(s1, col, f.was, f.wasLines)
                ELSE [err |-> "nil", was |-> f.was, wasLines |-> f.wasLines,
                      out |-> <<>>])

Pass(f, chunk) ==
    AfterDispatch(f,
        DispatchLoop([unread |-> unread, offset |-> offset,
                      p |-> ReadInto(f.p, f.from, chunk), from |-> f.from + Len(chunk),
                      newline |-> f.newline, pick |-> f.pick, atR |-> atR, atC |-> atC,
                      x |-> <<>>, err |-> "nil", text |-> <<>>],
                     h, f.echo))

\* The effect of an outcome o of caller c's readString on every variable but
\* script.  Returning and panicking run the deferred reset(orig) and
\* r.mu.Unlock(); a panic then ends the process.
Effect(c, o) ==
    LET f == frame[c]
    IN IF o.kind = "panic"
       THEN /\ alive' = FALSE
            /\ pc' = [pc EXCEPT ![c] = "panicRead"]
            /\ mu' = NoOne
            /\ tmode' = reset(f.orig, tmode)
            /\ UNCHANGED <<h, unread, offset, atR, atC, frame, ret, returned>>
       ELSE /\ alive' = alive
            /\ unread' = o.unread
            /\ offset' = o.offset
            /\ h' = o.h
            /\ atR' = o.atR
            /\ atC' = o.atC
            /\ IF o.kind = "return"
               THEN /\ pc' = [pc EXCEPT ![c] = "idle"]
                    /\ frame' = [frame EXCEPT ![c] = Returned(f)]
                    /\ ret' = [ret EXCEPT ![c] = ReadRet(o.text, o.err)]
                    /\ mu' = NoOne
                    /\ tmode' = reset(f.orig, tmode)
                    /\ returned' = IF f.echo /\ o.err = "nil"
                                   THEN Append(returned, o.text) ELSE returned
               ELSE /\ pc' = [pc EXCEPT ![c] = "reading"]
                    /\ frame' = [frame EXCEPT ![c] = o.frame]
                    /\ UNCHANGED <<ret, mu, tmode, returned>>

\* A caller calls ReadString (echo) or ReadPassword (~echo) and reaches
\* r.mu.Lock().
CallRead(c, echo) ==
    /\ alive
    /\ pc[c] = "idle"
    /\ pc' = [pc EXCEPT ![c] = "wantRead"]
    /\ frame' = [frame EXCEPT ![c] = [NoFrame EXCEPT !.echo = echo]]
    /\ ret' = [ret EXCEPT ![c] = NoRet]
    /\ UNCHANGED <<mu, h, unread, offset, col, atR, atC, tmode, alive, returned, script>>

\* readString from r.mu.Lock() to the first os.Stdin.Read: the lock, the
\* terminal set-up, the locals, and the completion at once when the pending
\* buffer already holds a newline.
StartRead(c) ==
    /\ alive
    /\ pc[c] = "wantRead"
    /\ CanLock
    /\ \E t \in TermChoices :
        LET raw == t.isTerm /\ t.rawOk
            f == [frame[c] EXCEPT !.orig = IF raw THEN tmode ELSE "nil",
                                  !.newline = IndexByte(unread, LF)]
            s == [unread |-> unread, offset |-> offset, p |-> f.p, from |-> f.from,
                  newline |-> f.newline]
            cp == Complete(s, h, f.echo)
        IN /\ col' = IF t.isTerm THEN t.col ELSE col
           /\ IF f.newline # -1
              THEN /\ unread' = cp.unread
                   /\ offset' = cp.offset
                   /\ h' = cp.h
                   /\ pc' = [pc EXCEPT ![c] = "idle"]
                   /\ frame' = [frame EXCEPT ![c] = Returned(f)]
                   /\ ret' = [ret EXCEPT ![c] = ReadRet(cp.line, "nil")]
                   /\ returned' = IF f.echo THEN Append(returned, cp.line) ELSE returned
                   /\ mu' = NoOne
                   /\ tmode' = reset(f.orig, IF raw THEN "raw" ELSE tmode)
              ELSE /\ pc' = [pc EXCEPT ![c] = "reading"]
                   /\ frame' = [frame EXCEPT ![c] = f]
                   /\ mu' = c
                   /\ tmode' = IF raw THEN "raw" ELSE tmode
                   /\ UNCHANGED <<unread, offset, h, ret, returned>>
    /\ Len(h') <= MaxHist
    /\ UNCHANGED <<atR, atC, alive, script>>

\* os.Stdin.Read returns the bytes of chunk, and readString runs until it
\* returns or blocks in the next Read.  A negative from makes p[from:] panic.
ReadStep(c, chunk) ==
    /\ alive
    /\ pc[c] = "reading"
    /\ Len(chunk) >= 1
    /\ Len(chunk) <= PLen - frame[c].from
    /\ \E o \in {IF frame[c].from < 0
                 THEN [kind |-> "panic"]
                 ELSE Pass(frame[c], chunk)} : Effect(c, o)
    /\ UNCHANGED col

\* the read of the explored input: any chunk that continues the held bytes
ReadChunk(c) ==
    /\ pc[c] = "reading"
    /\ \E chunk \in ChunksAfter(Streams, Take(frame[c].p, frame[c].from)) :
        ReadStep(c, chunk)
    /\ Len(unread') <= MaxLen
    /\ Len(ret'[c].text) <= MaxLen + 1
    /\ Len(h') <= MaxHist
    /\ UNCHANGED script

\* os.Stdin.Read returns 0, err: readString returns "", err
ReadFail(c) ==
    /\ alive
    /\ pc[c] = "reading"
    /\ \E o \in {IF frame[c].from < 0
                 THEN [kind |-> "panic"]
                 ELSE [kind |-> "return", text |-> <<>>, err |-> "ErrRead",
                       unread |-> unread, offset |-> offset, h |-> h,
                       atR |-> atR, atC |-> atC, frame |-> frame[c]]} : Effect(c, o)
    /\ UNCHANGED <<col, script>>

\* ---------------------------------------------------------------- History
\* A caller calls History(n) and reaches r.mu.Lock().
CallHistory(c, n) ==
    /\ alive
    /\ pc[c] = "idle"
    /\ pc' = [pc EXCEPT ![c] = "wantHistory"]
    /\ frame' = [frame EXCEPT ![c] = [NoFrame EXCEPT !.n = n]]
    /\ ret' = [ret EXCEPT ![c] = NoRet]
    /\ UNCHANGED <<mu, h, unread, offset, col, atR, atC, tmode, alive, returned, script>>

\* r.mu.Lock() of History
LockHistory(c) ==
    /\ alive
    /\ pc[c] = "wantHistory"
    /\ CanLock
    /\ mu' = c
    /\ pc' = [pc EXCEPT ![c] = "inHistory"]
    /\ UNCHANGED <<h, unread, offset, col, atR, atC, tmode, alive, frame, ret,
                   returned, script>>

\* the body of History and the deferred r.mu.Unlock()
ReturnHistory(c) ==
    /\ alive
    /\ pc[c] = "inHistory"
    /\ LET res == HistoryResult(h, frame[c].n)
       IN IF res.err = "panic"
          THEN /\ alive' = FALSE
               /\ pc' = [pc EXCEPT ![c] = "panicHistory"]
               /\ UNCHANGED <<frame, ret>>
          ELSE /\ alive' = alive
               /\ pc' = [pc EXCEPT ![c] = "idle"]
               /\ frame' = [frame EXCEPT ![c] = Returned(frame[c])]
               /\ ret' = [ret EXCEPT ![c] = res]
    /\ mu' = NoOne
    /\ UNCHANGED <<h, unread, offset, col, atR, atC, tmode, returned, script>>

\* ------------------------------------------------------- the specifications
\* One caller at a time (a sequential program such as examples/edlin.go).
User == "c1"

HistoryArgs == (-1)..(MaxHist + 1)

Next ==
    \/ \E echo \in BOOLEAN : CallRead(User, echo)
    \/ StartRead(User)
    \/ ReadChunk(User)
    \/ ReadFail(User)
    \/ \E n \in HistoryArgs : CallHistory(User, n)
    \/ LockHistory(User)
    \/ ReturnHistory(User)

Spec == Init /\ [][Next]_vars

\* ------------------------------------------------- scripted specification
\* One read operation on prepared input: the Reader starts with the history
\* h0 and the pending buffer start with the cursor at off0 (a buffer an
\* interrupted read left behind), the caller makes one call, and standard
\* input delivers the bytes of the script, cut into reads in every way.
MaxLit == 3      \* most literal bytes of a scripted line
MaxRecall == 2   \* most recall-older and most recall-newer keys of a script

UpKey == <<ESC, 91, 65>>
DownKey == <<ESC, 91, 66>>

\* letters and bytes that also occur inside escape sequences
LitBytes == {97, 98, 91}

\* no control byte, no ESC
IsLiteral(b) == b >= 32 /\ b # 127

Seqs(S, n) == UNION {[1..m -> S] : m \in 0..n}

Bufs == {<<>>, <<97>>, <<97, 98>>, <<98, 97, 97>>}

Lines == {<<97, LF>>, <<98, 97, LF>>}

ScriptOf(kind, bytes, echo, start, off0, h0) ==
    [kind |-> kind, bytes |-> bytes, pos |-> 0, echo |-> echo,
     start |-> start, off0 |-> off0, h0 |-> h0,
     calls |-> 0, at |-> 0, pend |-> <<>>, hist |-> <<>>]

\* literal bytes and one terminator, on an empty buffer
LitScripts ==
    {ScriptOf("lit", l \o <<t>>, e, <<>>, 0, hh) :
        l \in Seqs(LitBytes, MaxLit), t \in {CR, LF}, e \in BOOLEAN,
        hh \in {<<>>}}

\* one delete-forward, for every buffer and cursor
DelScripts ==
    UNION {{ScriptOf("del", d, e, b, o, <<>>) :
                d \in {<<4>>, <<ESC, 91, 51, 126>>}, e \in BOOLEAN, o \in 0..Len(b)} :
           b \in Bufs}

\* i recall-older then j recall-newer, for every buffer, cursor and history
RecallScripts ==
    UNION {{ScriptOf("recall", Repeat(UpKey, i) \o Repeat(DownKey, j), e, b, o, hh) :
                i \in 0..MaxRecall, j \in 0..MaxRecall, e \in BOOLEAN,
                o \in 0..Len(b), hh \in Seqs(Lines, 2) \ {<<>>}} :
           b \in Bufs}

\* keys and then the interrupt byte, on an empty buffer
IntrScripts ==
    {ScriptOf("intr", b \o <<ETX>>, e, <<>>, 0, hh) :
        b \in {<<>>, <<97>>, <<97, 98>>, <<97, 1>>, <<ESC>>, <<ESC, 91>>, UpKey},
        e \in BOOLEAN, hh \in {<<>>, <<<<97, LF>>>>}}

Scripts ==
    {s \in LitScripts \cup DelScripts \cup RecallScripts \cup IntrScripts :
        s.bytes # <<>>}

InitScript ==
    /\ script \in Scripts
    /\ mu = NoOne
    /\ h = script.h0
    /\ unread = script.start
    /\ offset = script.off0
    /\ col = 0
    /\ atR = 0
    /\ atC = 0
    /\ tmode = "cooked"
    /\ alive = TRUE
    /\ pc = [c \in Callers |-> "idle"]
    /\ frame = [c \in Callers |-> NoFrame]
    /\ ret = [c \in Callers |-> NoRet]
    /\ returned = script.h0

\* the one call of the script
CallScript(c) ==
    /\ ret[c].op = "none"
    /\ script.kind # "none"
    /\ CallRead(c, script.echo)

\* os.Stdin.Read delivers the next n bytes of the script
ReadScript(c) ==
    /\ pc[c] = "reading"
    /\ \E n \in 1..(Len(script.bytes) - script.pos) :
        /\ ReadStep(c, SubSeq(script.bytes, script.pos + 1, script.pos + n))
        /\ script' = [script EXCEPT !.pos = script.pos + n]

NextScript ==
    \/ CallScript(User)
    \/ StartRead(User)
    \/ ReadScript(User)
    \/ ReadFail(User)

SpecScript == InitScript /\ [][NextScript]_vars

\* the bytes of the script have all been read and dispatched
Dispatched == script.pos = Len(script.bytes) /\ frame[User].from = 0

\* ------------------------------------------ input after the terminator
\* A read operation whose input goes on after the terminator, and the read
\* operation that follows it: the Reader starts with the pending buffer
\* start and the cursor at off0, standard input delivers the terminator and
\* then up to MaxTail more keys, cut into reads in every way, and after the
\* first read operation has returned the caller calls again.
MaxTail == 3     \* most keys after the terminator
MaxAgain == 1    \* most calls after the first

TailKeys == {<<97>>, <<1>>, <<CR>>, UpKey}

TailBufs == {<<>>, <<98>>}

TailScripts ==
    UNION {{ScriptOf("term", <<CR>> \o Flat(ks), e, b, o, hh) :
                ks \in Seqs(TailKeys, MaxTail), e \in BOOLEAN, o \in 0..Len(b),
                hh \in {<<<<97, LF>>>>}} :
           b \in TailBufs}

InitTail ==
    /\ script \in TailScripts
    /\ mu = NoOne
    /\ h = script.h0
    /\ unread = script.start
    /\ offset = script.off0
    /\ col = 0
    /\ atR = 0
    /\ atC = 0
    /\ tmode = "cooked"
    /\ alive = TRUE
    /\ pc = [c \in Callers |-> "idle"]
    /\ frame = [c \in Callers |-> NoFrame]
    /\ ret = [c \in Callers |-> NoRet]
    /\ returned = script.h0

\* a later call of ReadString or ReadPassword; the script notes how much of
\* the input the calls before it have read (at), and the pending buffer and
\* the history the call finds
CallAgain(c, echo) ==
    /\ alive
    /\ pc[c] = "idle"
    /\ ret[c].op = "read"
    /\ script.calls < MaxAgain
    /\ pc' = [pc EXCEPT ![c] = "wantRead"]
    /\ frame' = [frame EXCEPT ![c] = [NoFrame EXCEPT !.echo = echo]]
    /\ ret' = [ret EXCEPT ![c] = NoRet]
    /\ script' = [script EXCEPT !.calls = script.calls + 1, !.at = script.pos,
                                !.pend = unread, !.hist = h]
    /\ UNCHANGED <<mu, h, unread, offset, col, atR, atC, tmode, alive, returned>>

NextTail ==
    \/ CallScript(User)
    \/ StartRead(User)
    \/ ReadScript(User)
    \/ \E echo \in BOOLEAN : CallAgain(User, echo)

SpecTail == InitTail /\ [][NextTail]_vars

\* ------------------------------------------------ more prepared input
\* Cursor position replies among the keys, and the transpose key: one read
\* operation on prepared input, as in the scripted specification, and later
\* calls as in the specification of input after the terminator.
ReplyA == <<ESC, 91, 49, 50, 59, 53, 82>>    \* ESC [ 1 2 ; 5 R
ReplyB == <<ESC, 91, 51, 59, 55, 82>>        \* ESC [ 3 ; 7 R

\* a reply at the start, between keystrokes and at the end of the input
ReplyScripts ==
    {ScriptOf("reply", pre \o r \o post, e, <<>>, 0, <<>>) :
        pre \in {<<>>, <<97>>}, r \in {ReplyA, ReplyB}, post \in {<<>>, <<97>>},
        e \in BOOLEAN}

XposeBufs == {<<97, 98>>, <<97, 98, 99>>}

\* the transpose key, for every cursor in a buffer of different bytes
XposeScripts ==
    UNION {{ScriptOf("xpose", <<20>>, e, b, o, <<>>) :
                e \in BOOLEAN, o \in 0..Len(b)} :
           b \in XposeBufs}

\* the byte typed into a silent read, and into no other
SECRET == 115

\* a silent read of the secret byte that ends with the interrupt byte, with
\* delete-next (end of input) or with the terminator, and the input of the
\* read operation after it
SecretScripts ==
    {ScriptOf("secret", <<SECRET>> \o a \o post, FALSE, <<>>, 0, <<>>) :
        a \in {<<ETX>>, <<4>>, <<CR>>}, post \in {<<97>>, <<CR>>, <<97, CR>>}}

KeyScripts == ReplyScripts \cup XposeScripts \cup SecretScripts

InitKeys ==
    /\ script \in KeyScripts
    /\ mu = NoOne
    /\ h = script.h0
    /\ unread = script.start
    /\ offset = script.off0
    /\ col = 0
    /\ atR = 0
    /\ atC = 0
    /\ tmode = "cooked"
    /\ alive = TRUE
    /\ pc = [c \in Callers |-> "idle"]
    /\ frame = [c \in Callers |-> NoFrame]
    /\ ret = [c \in Callers |-> NoRet]
    /\ returned = script.h0

NextKeys ==
    \/ CallScript(User)
    \/ StartRead(User)
    \/ ReadScript(User)
    \/ ReadFail(User)
    \/ \E echo \in BOOLEAN : CallAgain(User, echo)

SpecKeys == InitKeys /\ [][NextKeys]_vars

\* ------------------------------------------------- bytes left behind in p
\* One read operation on prepared input that fills most of the 20 bytes of
\* p, cut into reads in every way.
\* most letters between the two replies
MaxGap == 4

\* A reply, letters, and a second reply or the two bytes a reply ends with
\* typed as text, and then the first four bytes of one more reply: the
\* copies of the bytes of p that copy(p[:], p[c:]) leaves behind the
\* buffered bytes (ShiftBuf) come to lie where the bytes of the next read
\* end.
StaleScripts ==
    {ScriptOf("stale", ReplyB \o Repeat(<<97>>, k) \o last \o Take(ReplyB, 4),
              e, <<>>, 0, <<>>) :
        k \in 0..MaxGap, last \in {ReplyB, <<55, 82>>}, e \in BOOLEAN}

InitStale ==
    /\ script \in StaleScripts
    /\ mu = NoOne
    /\ h = <<>>
    /\ unread = <<>>
    /\ offset = 0
    /\ col = 0
    /\ atR = 0
    /\ atC = 0
    /\ tmode = "cooked"
    /\ alive = TRUE
    /\ pc = [c \in Callers |-> "idle"]
    /\ frame = [c \in Callers |-> NoFrame]
    /\ ret = [c \in Callers |-> NoRet]
    /\ returned = <<>>

NextStale ==
    \/ CallScript(User)
    \/ StartRead(User)
    \/ ReadScript(User)

SpecStale == InitStale /\ [][NextStale]_vars

\* ------------------------------------------ input prepared for the renderer
\* An echoed read operation on a terminal whose screen is followed: the
\* caller has called ReadString on a new Reader, the terminal is width
\* columns wide and entered raw mode, its reply to the cursor position
\* request (row 1, column atC) came whole in the first read of standard
\* input, and the redraw of the empty buffer wrote its clear-to-end-of-line.
\* The prompt fills the atC - 1 columns left of the cursor.  Standard input
\* then delivers letters and editing keys, cut into reads in every way.
MaxDraw == 4        \* most letters before the editing keys
MaxEdit == 3        \* most editing keys
MaxAtC == 2         \* the rightmost column the prompt ends before
ExampleCol == 10    \* the width of the worked example

Alphabet == <<97, 98, 99, 100, 101, 102, 103, 104, 105, 106, 107, 108>>

LeftKey == <<ESC, 91, 68>>

\* start of line, left, delete previous, and recall-newer (with no recall
\* before it, it empties the buffer)
DrawKeys == {<<1>>, LeftKey, <<127>>, DownKey}

DrawCols == {MaxCol, MaxCol + 1, ExampleCol}

DrawScripts ==
    {ScriptOf("draw", Take(Alphabet, k) \o Flat(ks), TRUE, <<>>, 0, <<>>) :
        k \in 1..MaxDraw, ks \in Seqs(DrawKeys, MaxEdit)}
    \cup {ScriptOf("draw", Alphabet, TRUE, <<>>, 0, <<>>)}

PROMPT == 62

InitDraw ==
    /\ script \in DrawScripts
    /\ mu = User
    /\ h = <<>>
    /\ unread = <<>>
    /\ offset = 0
    /\ col \in DrawCols
    /\ atR = 1
    /\ atC \in 1..MaxAtC
    /\ tmode = "raw"
    /\ alive = TRUE
    /\ pc = [c \in Callers |-> IF c = User THEN "reading" ELSE "idle"]
    /\ frame = [c \in Callers |->
                   IF c = User
                   THEN [NoFrame EXCEPT
                            !.echo = TRUE, !.orig = "cooked", !.out = clearEOL,
                            !.scr = [r |-> 0, c |-> atC - 1, wrap |-> FALSE,
                                     cells |-> {<<0, x, PROMPT>> : x \in 0..(atC - 2)},
                                     end |-> 0]]
                   ELSE NoFrame]
    /\ ret = [c \in Callers |-> NoRet]
    /\ returned = <<>>

NextDraw == ReadScript(User)

SpecDraw == InitDraw /\ [][NextDraw]_vars

\* ----------------------------------------------- concurrent specification
\* Two callers share the Reader; each calls ReadString, ReadPassword and
\* History in any order, and the scheduler interleaves them at the lock and
\* at every read of standard input.
ConcKeys == {<<97>>, <<CR>>, <<ETX>>}

ReadConc(c) ==
    /\ pc[c] = "reading"
    /\ \E chunk \in ConcKeys : ReadStep(c, chunk)
    /\ Len(unread') <= MaxLen
    /\ Len(ret'[c].text) <= MaxLen + 1
    /\ Len(h') <= MaxHist
    /\ UNCHANGED script

NextConc ==
    \E c \in Callers :
        \/ \E echo \in BOOLEAN : CallRead(c, echo)
        \/ StartRead(c)
        \/ ReadConc(c)
        \/ ReadFail(c)
        \/ \E n \in 0..1 : CallHistory(c, n)
        \/ LockHistory(c)
        \/ ReturnHistory(c)

SpecConc == Init /\ [][NextConc]_vars

\* between lock acquisition and return
InOperation(c) == pc[c] \in {"reading", "inHistory"}

\* ------------------------------------------------------------ properties

\* C1: in every reachable state of a Reader, after any keys and across
\* successive read operations, 0 <= offset <= length of the pending buffer.
C1_OffsetInBuffer == 0 <= offset /\ offset <= Len(unread)

\* a later read is editing, in the middle of it, a buffer of two bytes
C1_Witness ==
    /\ pc[User] = "reading"
    /\ Len(h) >= 1
    /\ Len(unread) = 2
    /\ offset = 1

\* C2 as claimed: History(n) never fails, and for n < 0 and for every n >= N
\* (n = N included) it returns the empty string and the total N.
C2_OutOfRange ==
    /\ pc[User] # "panicHistory"
    /\ (pc[User] = "idle" /\ ret[User].op = "History"
            /\ (frame[User].n < 0 \/ frame[User].n >= Len(h)))
        => (ret[User].text = <<>> /\ ret[User].total = Len(h))

\* C3: the history is exactly the lines returned by the completed echoed
\* reads, oldest first, so that History(k) with 0 <= k < N returns
\* (L(N-k), N); no later operation changes or removes a recorded entry.
C3_HistoryIsReturnedLines ==
    /\ h = returned
    /\ (pc[User] = "idle" /\ ret[User].op = "History"
            /\ 0 <= frame[User].n /\ frame[User].n < Len(returned))
        => /\ ret[User].text = returned[Len(returned) - frame[User].n]
           /\ ret[User].total = Len(returned)

\* History(1) has returned the older of two different recorded lines
C3_Witness ==
    /\ pc[User] = "idle"
    /\ ret[User].op = "History"
    /\ frame[User].n = 1
    /\ Len(returned) = 2
    /\ returned[1] # returned[2]
    /\ ret[User].text = returned[1]

\* the literal bytes of a scripted line, without its terminator
LitPart == SubSeq(script.bytes, 1, Len(script.bytes) - 1)

\* C4 as claimed: from an empty pending buffer, literal bytes cut into
\* chunks in any way and followed by one terminator make the read return
\* exactly those bytes followed by '\n'.
C4_LiteralLine ==
    script.kind = "lit"
        => /\ pc[User] # "panicRead"
           /\ script.pos = Len(script.bytes)
                => /\ pc[User] = "idle"
                   /\ ret[User] = ReadRet(LitPart \o <<LF>>, "nil")

\* the same statement away from an echoed read on a terminal one column wide
C4_LiteralLineOtherWidths ==
    (script.kind = "lit" /\ ~(script.echo /\ col = 1))
        => /\ pc[User] # "panicRead"
           /\ script.pos = Len(script.bytes)
                => /\ pc[User] = "idle"
                   /\ ret[User] = ReadRet(LitPart \o <<LF>>, "nil")

\* C5: a silent read leaves the history as it was, whatever it receives and
\* however it ends, and recall-older and recall-newer received during it
\* leave the pending buffer and the cursor offset unchanged.
C5_SilentNoHistory ==
    (script.kind # "none" /\ ~script.echo)
        => /\ h = script.h0
           /\ script.kind = "recall"
                => (unread = script.start /\ offset = script.off0)

\* a silent read has dispatched recall keys over a history and a buffer
C5_Witness ==
    /\ script.kind = "recall"
    /\ ~script.echo
    /\ Dispatched
    /\ pc[User] = "reading"
    /\ Len(script.bytes) >= 6
    /\ script.start # <<>>
    /\ script.off0 = 1

\* C6 as claimed: when the interrupt byte is reached, after any earlier bytes,
\* the read ends at once with the interruption error and no text, and the
\* partially-entered buffer is discarded, not pending for the next read.
C6_InterruptDiscards ==
    (script.kind = "intr" /\ script.pos = Len(script.bytes) /\ pc[User] # "panicRead")
        => /\ pc[User] = "idle"
           /\ ret[User] = ReadRet(<<>>, "ErrTerminated")
           /\ unread = <<>>
           /\ offset = 0

\* the part of C6 the code keeps: the read ends at once, with no text
C6_InterruptEnds ==
    (script.kind = "intr" /\ script.pos = Len(script.bytes) /\ pc[User] # "panicRead")
        => /\ pc[User] = "idle"
           /\ ret[User] = ReadRet(<<>>, "ErrTerminated")

\* C7: delete-forward with the cursor at the end of any buffer ends the read
\* with the end-of-input error whose text is the whole buffer, without a
\* crash and with buffer and cursor unchanged; before the end it removes
\* exactly the byte at the cursor and leaves the cursor offset unchanged.
C7_DeleteForward ==
    (script.kind = "del" /\ script.pos = Len(script.bytes))
        => IF script.off0 = Len(script.start)
           THEN /\ pc[User] = "idle"
                /\ ret[User] = ReadRet(script.start, "ErrEOF")
                /\ unread = script.start
                /\ offset = script.off0
           ELSE pc[User] = "reading"
                    => /\ unread = SubSeq(script.start, 1, script.off0)
                                   \o SubSeq(script.start, script.off0 + 2,
                                             Len(script.start))
                       /\ offset = script.off0
                       /\ frame[User].from = 0

\* delete-forward at the end of a buffer of three bytes has ended the read
C7_Witness ==
    /\ script.kind = "del"
    /\ script.pos = Len(script.bytes)
    /\ pc[User] = "idle"
    /\ ret[User].err = "ErrEOF"
    /\ Len(ret[User].text) = 3
    /\ unread = ret[User].text

\* the script is k recall-older then k recall-newer, 1 <= k <= entries
RoundTrip ==
    /\ script.kind = "recall"
    /\ script.echo
    /\ \E k \in 1..Len(script.h0) :
        script.bytes = Repeat(UpKey, k) \o Repeat(DownKey, k)
    /\ Dispatched
    /\ pc[User] = "reading"

\* C8 as claimed: in an echoed read, recall-older k times and then
\* recall-newer k times leaves the pending buffer equal to the content B it
\* had before.
C8_RoundTripRestores == RoundTrip => unread = script.start

\* C8 as the code has it: the round trip leaves the pending buffer empty with
\* the cursor at offset 0, which is the content B only when B was empty.
C8_RoundTripClears == RoundTrip => (unread = <<>> /\ offset = 0)

\* two keys each way over two entries, starting from a buffer with content
C8_Witness ==
    /\ RoundTrip
    /\ Len(script.bytes) = 12
    /\ script.start # <<>>
    /\ script.h0[1] # script.h0[2]
    /\ unread = <<>>

\* C9: whenever a read operation has reached its end (completed line,
\* interruption, end-of-input, stream read failure), the terminal settings
\* from before the read are back and the lock is free.
C9_Released ==
    (pc[User] = "idle" /\ ret[User].op = "read")
        => (tmode = "cooked" /\ mu = NoOne)

\* a read that took raw mode has ended with the interruption error
C9_Witness ==
    /\ pc[User] = "idle"
    /\ ret[User].op = "read"
    /\ ret[User].err = "ErrTerminated"
    /\ frame[User].orig = "cooked"
    /\ tmode = "cooked"

\* C10: no two operations are between lock acquisition and return at the
\* same time, a History call never runs during a read, and a caller that
\* arrives during a read waits until that read has returned.
C10_Serialized ==
    \A c \in Callers :
        InOperation(c)
            => /\ mu = c
               /\ \A d \in Callers \ {c} : ~InOperation(d)

\* one caller is in the middle of a read while the other waits at the lock
C10_Witness ==
    /\ pc["c1"] = "reading"
    /\ Len(unread) >= 1
    /\ pc["c2"] \in {"wantRead", "wantHistory"}

\* C11: a read operation that finds a '\n' in the pending buffer returns
\* the pending content up to and including the first '\n' without reading
\* any input, and the bytes after that '\n' stay pending, in order.
C11_CarryOver ==
    (script.kind = "term" /\ script.calls >= 1 /\ IndexByte(script.pend, LF) # -1)
        => /\ pc[User] \in {"wantRead", "idle"}
           /\ pc[User] = "idle"
                => /\ ret[User] =
                        ReadRet(SubSeq(script.pend, 1, IndexByte(script.pend, LF) + 1),
                                "nil")
                   /\ unread = SubSeq(script.pend, IndexByte(script.pend, LF) + 2,
                                      Len(script.pend))
                   /\ offset = 0
                   /\ h = IF frame[User].echo
                          THEN Append(script.hist,
                                      SubSeq(script.pend, 1,
                                             IndexByte(script.pend, LF) + 1))
                          ELSE script.hist

\* the second read has returned the head of a pending buffer that goes on
\* after its first newline
C11_Witness ==
    /\ script.kind = "term"
    /\ script.calls = 1
    /\ pc[User] = "idle"
    /\ ret[User].op = "read"
    /\ IndexByte(script.pend, LF) # -1
    /\ IndexByte(script.pend, LF) + 1 < Len(script.pend)
    /\ unread # <<>>

\* C12 as claimed: a terminator dispatched with buffer content B makes the
\* read return exactly B followed by one '\n', and an echoed read record
\* exactly that, whatever bytes follow the terminator in the same chunk.
C12_TerminatorEnds ==
    (script.kind = "term" /\ script.calls = 0)
        => /\ pc[User] # "panicRead"
           /\ (pc[User] = "idle" /\ ret[User].op = "read")
                => /\ ret[User] = ReadRet(script.start \o <<LF>>, "nil")
                   /\ h = IF script.echo
                          THEN Append(script.h0, script.start \o <<LF>>)
                          ELSE script.h0

\* the same statement for the reads in which the terminator came last in
\* its chunk
C12_TerminatorLast ==
    (script.kind = "term" /\ script.calls = 0 /\ script.pos = 1)
        => /\ pc[User] # "panicRead"
           /\ (pc[User] = "idle" /\ ret[User].op = "read")
                => /\ ret[User] = ReadRet(script.start \o <<LF>>, "nil")
                   /\ h = IF script.echo
                          THEN Append(script.h0, script.start \o <<LF>>)
                          ELSE script.h0

\* the bytes of s
Bytes(s) == {s[i] : i \in 1..Len(s)}

\* C13 as claimed: the bytes of a command that has arrived only in part are
\* never inserted into the edit buffer as literals, also across the return
\* of a completed line (the input is made of whole keys, cut anywhere).
C13_PrefixHeld ==
    script.kind = "term"
        => /\ ESC \notin Bytes(unread)
           /\ \A i \in 1..Len(h) : ESC \notin Bytes(h[i])

\* the same statement while no read operation has returned yet
C13_PrefixHeldInRead ==
    (script.kind \in {"term", "intr", "del", "recall"} /\ script.calls = 0
            /\ ret[User].op = "none")
        => ESC \notin Bytes(unread)

\* the script holds the reply r
HoldsReply(r) ==
    \E i \in 0..1 : SubSeq(script.bytes, i + 1, i + Len(r)) = r

\* the keys of a reply script without the reply
ReplyKeys == SelectSeq(script.bytes, LAMBDA b : b = 97)

\* C14 as claimed: a cursor position reply ESC [ row ; col R at any point of
\* the input, also cut in two by the reads, is consumed silently: none of
\* its bytes is inserted into the pending buffer, and the stored cursor row
\* and column become row and col.
C14_ReplyConsumed ==
    (script.kind = "reply" /\ script.calls = 0)
        => /\ Bytes(unread) \subseteq {97}
           /\ (Dispatched /\ pc[User] = "reading")
                => /\ unread = ReplyKeys
                   /\ HoldsReply(ReplyA) => (atR = 12 /\ atC = 5)
                   /\ HoldsReply(ReplyB) => (atR = 3 /\ atC = 7)

\* s with the bytes at (1-based) i and i + 1 exchanged
SwapAt(s, i) == [s EXCEPT ![i] = s[i + 1], ![i + 1] = s[i]]

\* C15 as claimed: for every buffer of length >= 2 and every cursor offset,
\* offset 0 included, transpose exchanges exactly one adjacent pair, the two
\* bytes around the cursor (clamped at the edges), keeps the length, and
\* advances the cursor by one unless it was at the end.
C15_Transpose ==
    (script.kind = "xpose" /\ Dispatched /\ pc[User] = "reading")
        => /\ unread = SwapAt(script.start,
                              IF script.off0 = 0 THEN 1
                              ELSE IF script.off0 = Len(script.start)
                              THEN script.off0 - 1 ELSE script.off0)
           /\ offset = IF script.off0 = Len(script.start)
                       THEN script.off0 ELSE script.off0 + 1

\* the same statement for the cursor offsets other than 0
C15_TransposeInside ==
    (script.kind = "xpose" /\ Dispatched /\ pc[User] = "reading" /\ script.off0 > 0)
        => /\ unread = SwapAt(script.start,
                              IF script.off0 = Len(script.start)
                              THEN script.off0 - 1 ELSE script.off0)
           /\ offset = IF script.off0 = Len(script.start)
                       THEN script.off0 ELSE script.off0 + 1

\* the continuation breaks and the characters among the tokens of out
IsContent(k) == k.t \in {"ch", "break"}

ContentOf(out) == SelectSeq(out, IsContent)

\* The bytes of u from the (0-based) index i on with one break each time the
\* running column, which starts at cOffset, crosses w.
RECURSIVE Wrapped(_, _, _, _)
Wrapped(u, i, cOffset, w) ==
    IF i >= Len(u)
    THEN <<>>
    ELSE (IF i + cOffset > 0 /\ (i + cOffset) % w = 0 THEN Tok("break", 0) ELSE <<>>)
         \o Tok("ch", u[i + 1])
         \o Wrapped(u, i + 1, cOffset, w)

\* C16: on a terminal of width w >= 2 with the prompt ending at column
\* cOffset, an echoed redraw writes the characters of the buffer in order,
\* with one continuation break each time the running column crosses w (so
\* that, at cOffset 0, n characters take ceil(n / w) rows, and at width 10
\* the 12 characters "abcdefghijkl" get exactly one break, after the tenth).
C16_Wrapped ==
    (script.kind = "draw" /\ col >= 2)
        => ContentOf(frame[User].out) = Wrapped(unread, 0, atC - 1, col)

\* C16 with the width that the redraw wraps at, one less than the width of
\* the terminal, in the place of w
C16_WrappedInside ==
    (script.kind = "draw" /\ col - 1 >= 2)
        => ContentOf(frame[User].out) = Wrapped(unread, 0, atC - 1, col - 1)

\* C16, the worked example alone: exactly one break, after the tenth
\* character
C16_Example ==
    (script.kind = "draw" /\ col = ExampleCol /\ atC = 1 /\ unread = Alphabet)
        => ContentOf(frame[User].out)
               = Wrapped(Alphabet, 0, 0, ExampleCol)

\* the redraw of the last pass wrote no continuation break and moved the
\* cursor by no row
NoRowOutput(out) == \A i \in 1..Len(out) : out[i].t \notin {"break", "up", "down"}

\* C19 (first part): with the width of the terminal unavailable (reported as
\* 0), an echoed redraw takes the width as unbounded: it writes no
\* continuation break and no row movement.
C19_Unbounded ==
    (script.kind = "lit" /\ script.echo /\ col = 0) => NoRowOutput(frame[User].out)

\* C19 (second part): for no reported width does the redraw divide or take
\* a remainder by zero; an echoed read of literal bytes has no other way to
\* panic.
C19_NoZeroDivide ==
    (script.kind = "lit" /\ script.echo) => pc[User] # "panicRead"

\* C19: degenerate terminal widths are safe: an echoed redraw at width 0
\* writes no continuation break and no row movement, and at no width (0, 1,
\* 2, ...) does a redraw divide by zero.
C19_DegenerateWidths == C19_Unbounded /\ C19_NoZeroDivide

\* the terminal cursor is on the cell of the logical cursor, w columns a row
OnCell(scr, w) ==
    /\ scr.r = (offset + atC - 1) \div w
    /\ scr.c = (offset + atC - 1) % w

\* C18: after every echoed redraw the terminal cursor is on the screen cell
\* of the logical cursor, row (offset + cOffset) div w and column
\* (offset + cOffset) mod w from the row the buffer starts on, w being the
\* width the redraw wraps at.
C18_CursorOnCell ==
    script.kind = "draw" => OnCell(frame[User].scr, col - 1)

\* C18 with the width of the terminal in the place of w
C18_CursorOnCellOfWidth ==
    script.kind = "draw" => OnCell(frame[User].scr, col)

\* C17: after a redraw, whatever the edits before it, no screen row below
\* the content it wrote holds a character (the redraw that renders fewer
\* rows than the one before it clears each of the rows no longer used).
C17_NoStaleRow ==
    script.kind = "draw" =>
        \A x \in frame[User].scr.cells : x[1] <= frame[User].scr.end

\* C17, the output alone: the redraw that writes fewer breaks than the one
\* before it wrote (by wasLines - lines) writes that many pairs of move-down
\* and clear-entire-line
ClearedRows(out) == Len(SelectSeq(out, LAMBDA k : k.t = "line"))

C17_ClearsEachRow ==
    [][(script.kind = "draw" /\ script'.pos > script.pos
        /\ frame'[User].wasLines < frame[User].wasLines)
           => ClearedRows(frame'[User].out)
                  = frame[User].wasLines - frame'[User].wasLines]_vars

\* the redraw of the last pass wrote the byte b
Wrote(out, b) == \E i \in 1..Len(out) : out[i].t = "ch" /\ out[i].n = b

\* C20: the bytes entered during a silent read are never written to the
\* output and never become part of a history entry, by that read or by a
\* later read operation on the same Reader, whether the silent read ended
\* with its terminator, with interruption or with end of input.  (The
\* silent read is the first call; it has read the secret byte when a later
\* call finds at least one byte of the input read.)
C20_SilentStaysSecret ==
    (script.kind = "secret" /\ (script.calls = 0 \/ script.at >= 1)) =>
        /\ \A i \in 1..Len(h) : SECRET \notin Bytes(h[i])
        /\ ~Wrote(frame[User].out, SECRET)

\* C20 for the silent read that ends with its terminator
C20_SecretAfterTerminator ==
    (script.kind = "secret" /\ script.bytes[2] = CR
     /\ (script.calls = 0 \/ script.at >= 2)) =>
        /\ \A i \in 1..Len(h) : SECRET \notin Bytes(h[i])
        /\ ~Wrote(frame[User].out, SECRET)

\* C21: the count of buffered undispatched bytes (from) stays in 0..20 in
\* every state; no iteration of the classification loop consumes more bytes
\* than are buffered (the loop ends with the iteration that does, so from is
\* then negative when the pass ends); the stop on a partial prefix leaves at
\* most 3 bytes buffered, so that the next read of standard input has room
\* for at least one byte.
C21_DispatchInBounds ==
    \A c \in Callers :
        /\ frame[c].from \in 0..PLen
        /\ pc[c] = "reading" => /\ frame[c].from <= 3
                                /\ frame[c].from < PLen

\* C21 without its lower bound: what is left buffered when readString blocks
\* in the next read is at most 3 bytes
C21_AtMostThreeHeld ==
    \A c \in Callers : pc[c] = "reading" => frame[c].from <= 3

====
